---- MODULE Spec2Model ----
(***************************************************************************)
(* Model of tdp.core.service_manager (ServiceManager, merge_collection_vars)*)
(* and of the init command that bootstraps the service managers.            *)
(*                                                                         *)
(* Four behaviours are modelled, each with its own specification:          *)
(*   Spec        ServiceManager.initialize_service_managers, step by step,  *)
(*               with ServiceManager.initialize_variables inlined;          *)
(*   SpecMerge   merge_collection_vars applied to two bounded mappings;     *)
(*   SpecResolve ServiceManager.components_modified, file by file;          *)
(*   SpecLoad    ServiceManager.get_service_managers, constructing one      *)
(*               ServiceManager per service name.                           *)
(***************************************************************************)
EXTENDS Integers, Sequences, FiniteSets, Bags, TLC

(***************************************************************************)
(* Python values.  A mapping (dict) is a function from a finite set of     *)
(* keys to tagged values: a leaf (scalar) or a nested mapping.             *)
(***************************************************************************)
EmptyMap == <<>>

Leaf(v) == [t |-> "leaf", v |-> v]

MapVal(m) == [t |-> "map", m |-> m]

IsMap(x) == x.t = "map"

\* src/tdp/core/service_manager.py:18
SERVICE_NAME_MAX_LENGTH == 15

\* tdp.core.collection.YML_EXTENSION, imported at service_manager.py:10
YML_EXTENSION == ".yml"

(***************************************************************************)
(* ansible.utils.vars.merge_hash(x, y) with its defaults (recursive=True,  *)
(* list_merge="replace"): y when x is empty or equal to y; otherwise a     *)
(* copy of x in which every key of y is set to y's value, except that two  *)
(* mapping values are merged recursively.                                  *)
(***************************************************************************)
RECURSIVE merge_hash(_, _)
merge_hash(x, y) ==
    IF x = EmptyMap \/ x = y
    THEN y
    ELSE [k \in (DOMAIN x) \cup (DOMAIN y) |->
            IF k \notin DOMAIN y THEN x[k]
            ELSE IF k \notin DOMAIN x THEN y[k]
            ELSE IF IsMap(x[k]) /\ IsMap(y[k])
                 THEN MapVal(merge_hash(x[k].m, y[k].m))
                 ELSE y[k]]

\* A merge that replaces whole values of shared keys (dict.update).
merge_collection_vars_shallow(dict_a, dict_b) ==
    [k \in (DOMAIN dict_a) \cup (DOMAIN dict_b) |->
        IF k \in DOMAIN dict_b THEN dict_b[k] ELSE dict_a[k]]

merge_collection_vars(dict_a, dict_b) == merge_hash(dict_a, dict_b)

(***************************************************************************)
(* Bounded universe of mappings for SpecMerge: keys MergeKeys, scalar      *)
(* leaves 1..MaxVal, nesting depth two.                                    *)
(***************************************************************************)
MaxVal == 2

MergeKeys == {"a", "b"}

Leaves == {Leaf(v) : v \in 1..MaxVal}

MapsOver(vals) == UNION {[D -> vals] : D \in SUBSET MergeKeys}

Maps1 == MapsOver(Leaves)

Maps2 == MapsOver(Leaves \cup {MapVal(m) : m \in Maps1})

\* The mappings of the examples: A = {a:1, b:{c:2}}, B = {b:{c:3, d:4}}.
ExampleA == [a |-> Leaf(1), b |-> MapVal([c |-> Leaf(2)])]

ExampleB == [b |-> MapVal([c |-> Leaf(3), d |-> Leaf(4)])]

(***************************************************************************)
(* The dependency graph (Dag) the managers share.  Component, Dag and      *)
(* Collection are imported by service_manager.py (lines 10-14).            *)
(***************************************************************************)
\* dag.services, in iteration order
Services == <<"hdfs", "yarn">>

ServiceSet == {Services[i] : i \in 1..Len(Services)}

Comp(service, unit, action) ==
    [service |-> service, unit |-> unit, action |-> action]

\* All components of the graph.
DagComponents ==
    { Comp("hdfs", "datanode", "config"), Comp("hdfs", "namenode", "config"),
      Comp("hdfs", "datanode", "install"), Comp("hdfs", "namenode", "start"),
      Comp("yarn", "rm", "config"), Comp("yarn", "rm", "start") }

\* dag.services_components: a dict keyed by the services of the graph
services_components == [s \in ServiceSet |-> {c \in DagComponents : c.service = s}]

\* dag.collections.values(), in declaration order
Collections == <<"c1", "c2">>

\* The variable files a collection may hold for a service, in listing order.
TargetNames(s) ==
    IF s = "hdfs" THEN <<"hdfs" \o YML_EXTENSION, "hdfs_datanode" \o YML_EXTENSION>>
    ELSE <<s \o YML_EXTENSION>>

VarPath(c, s, n) == [collection |-> c, service |-> s, name |-> n]

Paths ==
    { VarPath(Collections[ci], s, TargetNames(s)[ni]) :
        <<ci, s, ni>> \in { x \in (1..Len(Collections)) \X ServiceSet \X (1..2) :
                              x[3] <= Len(TargetNames(x[2])) } }

\* What a default-variable source holds at a path.
Absent == [kind |-> "absent"]

Malformed == [kind |-> "malformed"]

Yaml(m) == [kind |-> "yaml", dict |-> m]

\* The well-formed content of a collection's files: the two example mappings.
DefaultContent(c) == IF c = Collections[1] THEN ExampleA ELSE ExampleB

SourceStates(p) == {Absent, Malformed, Yaml(DefaultContent(p.collection))}

VARIABLES
    srcFile,           \* content of every default-variable source path
    rootDir,           \* services_directory itself: "absent" or "dir"
    fsEntry,           \* services_directory / service: "absent", "dir" or "file"
    repoInit,          \* the service directory holds a versioned store
    revs,              \* revision history of every service's versioned store
    work,              \* files of every service's working tree
    txnOpen,           \* number of transactions open on every store
    pc,                \* position of initialize_service_managers
    runs,              \* invocations of initialize_service_managers so far
    idx,               \* loop index over dag.services
    service_managers,  \* services recorded in the result mapping
    err,               \* error raised by the last invocation, "" if none
    initCalls,         \* invocations of initialize_variables per service
    default_var_paths, \* local of initialize_variables
    configurations,    \* open configuration files: name -> content
    fileIdx,           \* position in configurations.items()
    pathIdx,           \* position in default_variables_paths
    merge_result,      \* local of initialize_variables
    srcOpen,           \* default-variable sources open for reading
    cIdx               \* loop index of the init command over the managers

bootVars ==
    <<srcFile, rootDir, fsEntry, repoInit, revs, work, txnOpen, pc, runs, idx,
      service_managers, err, initCalls, default_var_paths, configurations,
      fileIdx, pathIdx, merge_result, srcOpen, cIdx>>

\* Bound on the invocations of initialize_service_managers in one behaviour.
MaxRuns == 2

Cur == Services[idx]

(***************************************************************************)
(* initialize_variables, lines 62-72: the OrderedDict default_var_paths,   *)
(* as its keys in insertion order and its values.  A value is a list of    *)
(* paths, or None.                                                         *)
(***************************************************************************)
EmptyOD == [keys |-> <<>>, vals |-> <<>>]

PathList(ps) == [none |-> FALSE, paths |-> ps]

NoneVal == [none |-> TRUE, paths |-> <<>>]

\* Python truth value of a list-or-None.
Truthy(v) == ~v.none /\ v.paths # <<>>

\* collection.get_service_default_vars(name): the (name, path) pairs of the
\* files the collection holds for the service, in listing order.
RECURSIVE ListDefaultVars(_, _, _)
ListDefaultVars(c, s, i) ==
    IF i > Len(TargetNames(s)) THEN <<>>
    ELSE LET n == TargetNames(s)[i]
             p == VarPath(c, s, n)
         IN  (IF srcFile[p].kind = "absent" THEN <<>> ELSE << <<n, p>> >>)
               \o ListDefaultVars(c, s, i + 1)

get_service_default_vars(c, s) == ListDefaultVars(c, s, 1)

\* A grouping that puts a new path in front of its group.
SetDefaultPrepend(od, name, path) ==
    IF name \in DOMAIN od.vals
    THEN [od EXCEPT !.vals[name] = PathList(<<path>> \o @.paths)]
    ELSE [keys |-> Append(od.keys, name),
          vals |-> od.vals @@ (name :> PathList(<<path>>))]

\* default_var_paths.setdefault(name, []).append(path)
SetDefaultAppend(od, name, path) ==
    IF name \in DOMAIN od.vals
    THEN [od EXCEPT !.vals[name] = PathList(Append(@.paths, path))]
    ELSE [keys |-> Append(od.keys, name),
          vals |-> od.vals @@ (name :> PathList(<<path>>))]

\* for name, path in default_vars: ...
RECURSIVE AddEntries(_, _, _)
AddEntries(od, entries, i) ==
    IF i > Len(entries) THEN od
    ELSE AddEntries(SetDefaultAppend(od, entries[i][1], entries[i][2]), entries, i + 1)

\* for collection in self.dag.collections.values(): ...
RECURSIVE GatherFrom(_, _, _)
GatherFrom(od, s, ci) ==
    IF ci > Len(Collections) THEN od
    ELSE LET default_vars == get_service_default_vars(Collections[ci], s)
         IN  IF default_vars = <<>>
             THEN GatherFrom(od, s, ci + 1)
             ELSE GatherFrom(AddEntries(od, default_vars, 1), s, ci + 1)

\* A gathering that leaves a service without default vars without any file.
GatherPathsNoFallback(s) == GatherFrom(EmptyOD, s, 1)

\* Lines 62-72: the gathered paths, or the single key <name>.yml with None.
GatherPaths(s) ==
    LET od == GatherFrom(EmptyOD, s, 1)
    IN  IF od.keys = <<>>
        THEN [keys |-> <<s \o YML_EXTENSION>>,
              vals |-> (s \o YML_EXTENSION) :> NoneVal]
        ELSE od

\* f"{self.name}: initial commit"
CommitMessage(s) == s \o ": initial commit"

(***************************************************************************)
(* ServiceManager.__init__, lines 26-31: TRUE when the manager is          *)
(* constructed, FALSE when ValueError is raised.                           *)
(***************************************************************************)
\* A length check that also rejects a name of exactly the maximum length.
ServiceManager_init_strict(service_name) ==
    ~(Len(service_name) >= SERVICE_NAME_MAX_LENGTH)

ServiceManager_init(service_name) ==
    ~(Len(service_name) > SERVICE_NAME_MAX_LENGTH)

\* repository.current_version() does not raise NoVersionYet
HasVersion(s) == revs[s] # <<>>

\* Variables(path).open() ... variables.to_dict(): the parsed content
to_dict(p) == srcFile[p].dict

\* configuration.update(merge_result)
ConfigUpdate(content, upd) ==
    [k \in (DOMAIN content) \cup (DOMAIN upd) |->
        IF k \in DOMAIN upd THEN upd[k] ELSE content[k]]

\* repository.open_var_files(names): the content of every file, empty if new
OpenVarFiles(s, names) ==
    [n \in {names[i] : i \in 1..Len(names)} |->
        IF n \in DOMAIN work[s] THEN work[s][n] ELSE EmptyMap]

\* The revision a transaction commits.
Revision(msg, files) == [message |-> msg, files |-> files]

initLocals == <<default_var_paths, configurations, fileIdx, pathIdx, merge_result>>

storeVars == <<repoInit, revs, work, txnOpen>>

ResetLocals ==
    /\ default_var_paths' = EmptyOD
    /\ configurations' = <<>>
    /\ fileIdx' = 0
    /\ pathIdx' = 0
    /\ merge_result' = EmptyMap

(***************************************************************************)
(* initialize_service_managers, lines 110-136.                             *)
(***************************************************************************)
\* Lines 110-113: a new invocation starts its loop over dag.services.
BootStart ==
    /\ pc \in {"idle", "done", "failed", "exit"}
    /\ runs < MaxRuns
    /\ runs' = runs + 1
    /\ idx' = 1
    /\ cIdx' = 0
    /\ service_managers' = {}
    /\ err' = ""
    /\ pc' = IF Len(Services) = 0 THEN "done" ELSE "mkdir"
    /\ UNCHANGED <<srcFile, rootDir, srcOpen, fsEntry, storeVars, initCalls, initLocals>>

\* A mkdir that takes any existing entry for the service directory.
BootMkdirNoCheck ==
    /\ pc = "mkdir"
    /\ IF fsEntry[Cur] = "absent"
       THEN /\ fsEntry' = [fsEntry EXCEPT ![Cur] = "dir"]
            /\ rootDir' = "dir"
            /\ UNCHANGED err
       ELSE UNCHANGED <<rootDir, fsEntry, err>>
    /\ pc' = "repo"
    /\ UNCHANGED <<srcFile, cIdx, srcOpen, storeVars, runs, idx, service_managers, initCalls, initLocals>>

\* Lines 114-123: mkdir(parents=True); an existing entry must be a directory.
BootMkdir ==
    /\ pc = "mkdir"
    /\ IF fsEntry[Cur] = "absent"
       THEN /\ fsEntry' = [fsEntry EXCEPT ![Cur] = "dir"]
            /\ rootDir' = "dir"
            /\ pc' = "repo"
            /\ err' = err
       ELSE IF fsEntry[Cur] = "dir"
       THEN /\ pc' = "repo"
            /\ UNCHANGED <<rootDir, fsEntry, err>>
       ELSE /\ pc' = "failed"
            /\ err' = "NotADirectory"
            /\ UNCHANGED <<rootDir, fsEntry>>
    /\ UNCHANGED <<srcFile, cIdx, srcOpen, storeVars, runs, idx, service_managers, initCalls, initLocals>>

\* Lines 125-126: GitRepository.init(service_directory), then the manager.
BootRepo ==
    /\ pc = "repo"
    /\ repoInit' = [repoInit EXCEPT ![Cur] = TRUE]
    /\ IF ServiceManager_init(Cur)
       THEN pc' = "check" /\ err' = err
       ELSE pc' = "failed" /\ err' = "InvalidServiceName"
    /\ UNCHANGED <<srcFile, rootDir, cIdx, srcOpen, fsEntry, revs, work, txnOpen, runs, idx,
                   service_managers, initCalls, initLocals>>

\* A version check that initializes the variables whatever the version.
BootCheckAlways ==
    /\ pc = "check"
    /\ pc' = "gather"
    /\ initCalls' = [initCalls EXCEPT ![Cur] = @ + 1]
    /\ UNCHANGED <<srcFile, rootDir, cIdx, srcOpen, fsEntry, storeVars, runs, idx, service_managers, err,
                   initLocals>>

\* A version check that swallows NoVersionYet without initializing.
BootCheckSkip ==
    /\ pc = "check"
    /\ pc' = "record"
    /\ UNCHANGED <<srcFile, rootDir, cIdx, srcOpen, fsEntry, storeVars, runs, idx, service_managers, err,
                   initCalls, initLocals>>

\* Lines 127-132: service_manager.version; on NoVersionYet call
\* initialize_variables.
BootCheck ==
    /\ pc = "check"
    /\ IF HasVersion(Cur)
       THEN pc' = "record" /\ UNCHANGED initCalls
       ELSE pc' = "gather" /\ initCalls' = [initCalls EXCEPT ![Cur] = @ + 1]
    /\ UNCHANGED <<srcFile, rootDir, cIdx, srcOpen, fsEntry, storeVars, runs, idx, service_managers, err,
                   initLocals>>

\* Lines 134-136: record the manager; next service, or return the mapping.
BootRecord ==
    /\ pc = "record"
    /\ service_managers' = service_managers \cup {Cur}
    /\ IF idx < Len(Services)
       THEN idx' = idx + 1 /\ pc' = "mkdir"
       ELSE idx' = idx /\ pc' = "done"
    /\ UNCHANGED <<srcFile, rootDir, cIdx, srcOpen, fsEntry, storeVars, runs, err, initCalls, initLocals>>

(***************************************************************************)
(* initialize_variables, lines 57-97, called at line 132.                  *)
(***************************************************************************)
\* Lines 62-72.
InitGather ==
    /\ pc = "gather"
    /\ default_var_paths' = GatherPaths(Cur)
    /\ pc' = "begin"
    /\ UNCHANGED <<srcFile, rootDir, cIdx, srcOpen, fsEntry, storeVars, runs, idx, service_managers, err,
                   initCalls, configurations, fileIdx, pathIdx, merge_result>>

\* Lines 74-78: enter repository.validate(message) and open_var_files(keys).
InitBegin ==
    /\ pc = "begin"
    /\ txnOpen' = [txnOpen EXCEPT ![Cur] = @ + 1]
    /\ configurations' = OpenVarFiles(Cur, default_var_paths.keys)
    /\ fileIdx' = 1
    /\ pc' = "file"
    /\ UNCHANGED <<srcFile, rootDir, cIdx, srcOpen, fsEntry, repoInit, revs, work, runs, idx,
                   service_managers, err, initCalls, default_var_paths, pathIdx,
                   merge_result>>

CurFile == default_var_paths.keys[fileIdx]

CurPaths == default_var_paths.vals[CurFile]

\* Lines 80-86 and 94-97: next configuration file; leave the with block after
\* the last one.
InitFile ==
    /\ pc = "file"
    /\ IF fileIdx > Len(default_var_paths.keys)
       THEN pc' = "commit" /\ UNCHANGED <<fileIdx, pathIdx, merge_result>>
       ELSE IF Truthy(CurPaths)
       THEN /\ merge_result' = EmptyMap
            /\ pathIdx' = 1
            /\ pc' = "merge"
            /\ UNCHANGED fileIdx
       ELSE /\ fileIdx' = fileIdx + 1
            /\ pc' = "file"
            /\ UNCHANGED <<pathIdx, merge_result>>
    /\ UNCHANGED <<srcFile, rootDir, cIdx, srcOpen, fsEntry, storeVars, runs, idx, service_managers, err,
                   initCalls, default_var_paths, configurations>>

\* A source loop that skips a source that does not parse.
InitMergeSkip ==
    /\ pc = "read"
    /\ LET p == CurPaths.paths[pathIdx]
       IN  merge_result' = IF srcFile[p].kind = "yaml"
                           THEN merge_collection_vars(merge_result, to_dict(p))
                           ELSE merge_result
    /\ pathIdx' = pathIdx + 1
    /\ srcOpen' = srcOpen - 1
    /\ pc' = "merge"
    /\ UNCHANGED err
    /\ UNCHANGED <<srcFile, rootDir, cIdx, fsEntry, storeVars, runs, idx, service_managers,
                   initCalls, default_var_paths, configurations, fileIdx>>

\* A source loop that does not close a source whose parsing fails.
InitMergeLeak ==
    /\ pc = "read"
    /\ LET p == CurPaths.paths[pathIdx]
       IN  IF srcFile[p].kind = "yaml"
           THEN /\ merge_result' = merge_collection_vars(merge_result, to_dict(p))
                /\ pathIdx' = pathIdx + 1
                /\ srcOpen' = srcOpen - 1
                /\ pc' = "merge"
                /\ UNCHANGED err
           ELSE /\ pc' = "abort"
                /\ err' = "MalformedSource"
                /\ UNCHANGED <<merge_result, pathIdx, srcOpen>>
    /\ UNCHANGED <<srcFile, rootDir, cIdx, fsEntry, storeVars, runs, idx, service_managers,
                   initCalls, default_var_paths, configurations, fileIdx>>

\* Line 88: with Variables(default_variables_path).open() as variables
InitOpenSource ==
    /\ pc = "merge"
    /\ pathIdx <= Len(CurPaths.paths)
    /\ srcOpen' = srcOpen + 1
    /\ pc' = "read"
    /\ UNCHANGED <<srcFile, rootDir, cIdx, fsEntry, storeVars, runs, idx, service_managers,
                   err, initCalls, initLocals>>

\* Lines 89-91 and the exit of the with block of line 88: parse the source
\* and merge it into merge_result; a source that does not parse raises out
\* of both with blocks.  The source is closed either way.
InitMerge ==
    /\ pc = "read"
    /\ LET p == CurPaths.paths[pathIdx]
       IN  IF srcFile[p].kind = "yaml"
           THEN /\ merge_result' = merge_collection_vars(merge_result, to_dict(p))
                /\ pathIdx' = pathIdx + 1
                /\ pc' = "merge"
                /\ UNCHANGED err
           ELSE /\ pc' = "abort"
                /\ err' = "MalformedSource"
                /\ UNCHANGED <<merge_result, pathIdx>>
    /\ srcOpen' = srcOpen - 1
    /\ UNCHANGED <<srcFile, rootDir, cIdx, fsEntry, storeVars, runs, idx, service_managers,
                   initCalls, default_var_paths, configurations, fileIdx>>

\* An update that commits every configuration file on its own.
InitUpdateCommitEach ==
    /\ pc = "merge"
    /\ pathIdx > Len(CurPaths.paths)
    /\ configurations' =
         [configurations EXCEPT ![CurFile] = ConfigUpdate(@, merge_result)]
    /\ revs' = [revs EXCEPT
                  ![Cur] = Append(@, Revision(CommitMessage(Cur),
                                              CurFile :> merge_result))]
    /\ fileIdx' = fileIdx + 1
    /\ pc' = "file"
    /\ UNCHANGED <<srcFile, rootDir, cIdx, srcOpen, fsEntry, repoInit, work, txnOpen, runs, idx,
                   service_managers, err, initCalls, default_var_paths, pathIdx,
                   merge_result>>

\* An update that writes the merged file into every service directory.
InitUpdateEverywhere ==
    /\ pc = "merge"
    /\ pathIdx > Len(CurPaths.paths)
    /\ configurations' =
         [configurations EXCEPT ![CurFile] = ConfigUpdate(@, merge_result)]
    /\ work' = [s \in ServiceSet |->
                  IF s = Cur THEN work[s]
                  ELSE ConfigUpdate(work[s], CurFile :> merge_result)]
    /\ fileIdx' = fileIdx + 1
    /\ pc' = "file"
    /\ UNCHANGED <<srcFile, rootDir, cIdx, srcOpen, fsEntry, repoInit, revs, txnOpen, runs, idx,
                   service_managers, err, initCalls, default_var_paths, pathIdx,
                   merge_result>>

\* Line 93: configuration.update(merge_result).
InitUpdate ==
    /\ pc = "merge"
    /\ pathIdx > Len(CurPaths.paths)
    /\ configurations' =
         [configurations EXCEPT ![CurFile] = ConfigUpdate(@, merge_result)]
    /\ fileIdx' = fileIdx + 1
    /\ pc' = "file"
    /\ UNCHANGED <<srcFile, rootDir, cIdx, srcOpen, fsEntry, storeVars, runs, idx, service_managers, err,
                   initCalls, default_var_paths, pathIdx, merge_result>>

\* Normal exit of the with block of lines 74-78: the configuration files are
\* written back and the transaction commits them as one revision.
InitCommit ==
    /\ pc = "commit"
    /\ work' = [work EXCEPT ![Cur] = ConfigUpdate(@, configurations)]
    /\ revs' = [revs EXCEPT
                  ![Cur] = Append(@, Revision(CommitMessage(Cur), configurations))]
    /\ txnOpen' = [txnOpen EXCEPT ![Cur] = @ - 1]
    /\ ResetLocals
    /\ pc' = "record"
    /\ UNCHANGED <<srcFile, rootDir, cIdx, srcOpen, fsEntry, repoInit, runs, idx, service_managers, err,
                   initCalls>>

\* Exit of the with block on an exception: the transaction is discarded and
\* the exception leaves initialize_variables and initialize_service_managers.
InitAbort ==
    /\ pc = "abort"
    /\ txnOpen' = [txnOpen EXCEPT ![Cur] = @ - 1]
    /\ ResetLocals
    /\ pc' = "failed"
    /\ UNCHANGED <<srcFile, rootDir, cIdx, srcOpen, fsEntry, repoInit, revs, work, runs, idx,
                   service_managers, err, initCalls>>

\* Between two invocations the operator removes the cause of a failure: the
\* entry in the way of the service directory, or the malformed sources.
Repair ==
    /\ pc = "failed"
    /\ \/ /\ err = "NotADirectory"
          /\ fsEntry[Cur] = "file"
          /\ fsEntry' = [fsEntry EXCEPT ![Cur] = "absent"]
          /\ UNCHANGED srcFile
       \/ /\ err = "MalformedSource"
          /\ \E p \in Paths : p.service = Cur /\ srcFile[p] = Malformed
          /\ srcFile' = [p \in Paths |->
                           IF p.service = Cur /\ srcFile[p] = Malformed
                           THEN Yaml(DefaultContent(p.collection))
                           ELSE srcFile[p]]
          /\ UNCHANGED fsEntry
    /\ UNCHANGED <<rootDir, cIdx, srcOpen, storeVars, pc, runs, idx, service_managers, err, initCalls,
                   initLocals>>

(***************************************************************************)
(* The init command, src/tdp/cli/commands/init.py lines 37-43: after the   *)
(* bootstrap has returned, a loop over the managers echoes their versions. *)
(***************************************************************************)
\* Line 38: for name, service_manager in service_managers.items()
CmdBegin ==
    /\ pc = "done"
    /\ pc' = "echo"
    /\ cIdx' = 1
    /\ UNCHANGED <<srcFile, rootDir, srcOpen, fsEntry, storeVars, runs, idx,
                   service_managers, err, initCalls, initLocals>>

\* Lines 39-43: echo the version of the next manager; on NoVersionYet the
\* branch calls initiliaze_variables, which no ServiceManager has.
CmdEcho ==
    /\ pc = "echo"
    /\ cIdx <= Len(Services)
    /\ IF HasVersion(Services[cIdx])
       THEN cIdx' = cIdx + 1 /\ UNCHANGED <<pc, err>>
       ELSE pc' = "crashed" /\ err' = "AttributeError" /\ UNCHANGED cIdx
    /\ UNCHANGED <<srcFile, rootDir, srcOpen, fsEntry, storeVars, runs, idx,
                   service_managers, initCalls, initLocals>>

\* The loop is over: the command ends.
CmdExit ==
    /\ pc = "echo"
    /\ cIdx > Len(Services)
    /\ pc' = "exit"
    /\ UNCHANGED <<srcFile, rootDir, cIdx, srcOpen, fsEntry, storeVars, runs, idx,
                   service_managers, err, initCalls, initLocals>>

(***************************************************************************)
(* merge_collection_vars applied to two mappings (SpecMerge).              *)
(***************************************************************************)
VARIABLES
    dict_a,    \* first argument
    dict_b,    \* second argument
    mergeOut,  \* the value returned
    mpc        \* "idle", "input" or "merged"

mergeVars == <<dict_a, dict_b, mergeOut, mpc>>

MergeCall ==
    /\ mpc = "input"
    /\ mergeOut' = merge_collection_vars(dict_a, dict_b)
    /\ mpc' = "merged"
    /\ UNCHANGED <<dict_a, dict_b>>

(***************************************************************************)
(* components_modified, lines 159-180 (SpecResolve).                       *)
(***************************************************************************)
\* Bound on the number of files repository.files_modified returns.
MaxFiles == 2

\* Stems of the files a service directory may hold: <service> or
\* <service>_<unit>, for services and units in and out of the graph.
StemUniverse ==
    [service : {"hdfs", "yarn", "hive"}, unit : {"", "datanode", "rm", "ghost"}]

StemName(st) ==
    IF st.unit = "" THEN st.service ELSE st.service \o "_" \o st.unit

StemNames == {StemName(st) : st \in StemUniverse}

FileNames == {n \o YML_EXTENSION : n \in StemNames}

\* Path(file_modified).stem
PathStem(f) == CHOOSE n \in StemNames : n \o YML_EXTENSION = f

ComponentUniverse ==
    {Comp(st.service, st.unit, a) : st \in StemUniverse, a \in {"config", "install", "start"}}

\* The identifier of a component: <service>_<action> or <service>_<unit>_<action>.
ComponentName(c) == StemName([service |-> c.service, unit |-> c.unit]) \o "_" \o c.action

\* Component(name): the component an identifier denotes.
Component(name) == CHOOSE c \in ComponentUniverse : ComponentName(c) = name

\* component.is_service(): the identifier has no unit part.
is_service(c) == c.unit = ""

VARIABLES
    rFiles,               \* what repository.files_modified(version) yields
    rKnown,               \* version belongs to the history of the store
    rpc,                  \* "idle", "call", "loop", "returned" or "failed"
    rIdx,                 \* position in files_modified
    components_modified,  \* the set accumulated, as the count of every element
    rResult,              \* the list returned, as the set of its elements
    rList,                \* the list returned
    rErr                  \* error raised, "" if none

resVars == <<rFiles, rKnown, rpc, rIdx, components_modified, rResult, rList, rErr>>

\* An accumulation that keeps every occurrence (list.extend).
ListExtend(acc, comps) == acc (+) SetToBag(comps)

\* Lines 169, 175 and 179: set.update(comps) / set.add(component) on a set
\* whose elements are equal when their identifiers are.
SetUpdate(acc, comps) == acc (+) SetToBag(comps \ BagToSet(acc))

\* Line 180: list(s), the elements of s in any order.
ListOf(acc) ==
    LET n == BagCardinality(acc)
    IN  {q \in [1..n -> BagToSet(acc)] :
            \A e \in BagToSet(acc) : Cardinality({i \in 1..n : q[i] = e}) = acc[e]}

\* A call that takes the failure of files_modified for an empty list.
ResFilesModifiedSwallow ==
    /\ rpc = "call"
    /\ rpc' = "loop"
    /\ rErr' = rErr
    /\ components_modified' = EmptyBag
    /\ rIdx' = IF rKnown THEN 1 ELSE Len(rFiles) + 1
    /\ UNCHANGED <<rFiles, rKnown, rResult, rList>>

\* Line 168: files_modified = self._repo.files_modified(version)
ResFilesModified ==
    /\ rpc = "call"
    /\ IF rKnown
       THEN rpc' = "loop" /\ rErr' = rErr
       ELSE rpc' = "failed" /\ rErr' = "UnknownRevision"
    /\ components_modified' = EmptyBag
    /\ rIdx' = 1
    /\ UNCHANGED <<rFiles, rKnown, rResult, rList>>

\* An expansion that keeps every component of the service.
ExpandAll(service) == services_components[service]

\* Lines 174-177: the components of the service whose action is "config".
Expand(service) == {c \in services_components[service] : c.action = "config"}

\* Lines 171-179: what one modified file adds to the set; ok is FALSE when
\* the lookup in dag.services_components raises.
FileComponents(f) ==
    LET component == Component(PathStem(f) \o "_config")
    IN  IF is_service(component)
        THEN IF component.service \in DOMAIN services_components
             THEN [ok |-> TRUE, comps |-> Expand(component.service)]
             ELSE [ok |-> FALSE, comps |-> {}]
        ELSE [ok |-> TRUE, comps |-> {component}]

\* Lines 170-179: one iteration of the loop over files_modified.
ResFile ==
    /\ rpc = "loop"
    /\ rIdx <= Len(rFiles)
    /\ LET r == FileComponents(rFiles[rIdx])
       IN  IF r.ok
           THEN /\ components_modified' = SetUpdate(components_modified, r.comps)
                /\ rIdx' = rIdx + 1
                /\ UNCHANGED <<rpc, rErr>>
           ELSE /\ rpc' = "failed"
                /\ rErr' = "UnknownComponent"
                /\ UNCHANGED <<components_modified, rIdx>>
    /\ UNCHANGED <<rFiles, rKnown, rResult, rList>>

\* Line 180: return list(components_modified)
ResReturn ==
    /\ rpc = "loop"
    /\ rIdx > Len(rFiles)
    /\ rList' \in ListOf(components_modified)
    /\ rResult' = {rList'[i] : i \in 1..Len(rList')}
    /\ rpc' = "returned"
    /\ UNCHANGED <<rFiles, rKnown, rIdx, components_modified, rErr>>

(***************************************************************************)
(* get_service_managers, lines 149-157, over a graph whose service names   *)
(* have any length up to MaxNameLen (SpecLoad).                            *)
(***************************************************************************)
\* Bound on the length of a service name.
MaxNameLen == 17

RECURSIVE PadName(_, _)
PadName(ch, n) == IF n = 0 THEN "" ELSE PadName(ch, n - 1) \o ch

VARIABLES
    loadServices,  \* dag.services of the graph given to get_service_managers
    lpc,           \* "idle", "loop", "done" or "failed"
    lIdx,          \* loop index over dag.services
    loadManagers,  \* names of the managers constructed, in order
    loadErr        \* error raised, "" if none

loadVars == <<loadServices, lpc, lIdx, loadManagers, loadErr>>

\* A loop body that, like the bootstrap, creates the service directory and
\* initializes a versioned store in it before it constructs the manager.
LoadConstructInit ==
    /\ lpc = "loop"
    /\ lIdx <= Len(loadServices)
    /\ IF loadServices[lIdx] \in ServiceSet
       THEN /\ fsEntry' = [fsEntry EXCEPT ![loadServices[lIdx]] = "dir"]
            /\ repoInit' = [repoInit EXCEPT ![loadServices[lIdx]] = TRUE]
       ELSE UNCHANGED <<fsEntry, repoInit>>
    /\ IF ServiceManager_init(loadServices[lIdx])
       THEN /\ loadManagers' = Append(loadManagers, loadServices[lIdx])
            /\ lIdx' = lIdx + 1
            /\ UNCHANGED <<lpc, loadErr>>
       ELSE /\ lpc' = "failed"
            /\ loadErr' = "InvalidServiceName"
            /\ UNCHANGED <<loadManagers, lIdx>>
    /\ UNCHANGED <<loadServices, srcFile, rootDir, cIdx, srcOpen, revs, work, txnOpen, pc, runs, idx,
                   service_managers, err, initCalls, initLocals>>

\* Lines 153-155: GitRepository(path), then ServiceManager(service, repo, dag).
LoadConstruct ==
    /\ lpc = "loop"
    /\ lIdx <= Len(loadServices)
    /\ IF ServiceManager_init(loadServices[lIdx])
       THEN /\ loadManagers' = Append(loadManagers, loadServices[lIdx])
            /\ lIdx' = lIdx + 1
            /\ UNCHANGED <<lpc, loadErr>>
       ELSE /\ lpc' = "failed"
            /\ loadErr' = "InvalidServiceName"
            /\ UNCHANGED <<loadManagers, lIdx>>
    /\ UNCHANGED loadServices
    /\ UNCHANGED bootVars

\* Line 157: return service_managers
LoadReturn ==
    /\ lpc = "loop"
    /\ lIdx > Len(loadServices)
    /\ lpc' = "done"
    /\ UNCHANGED <<loadServices, lIdx, loadManagers, loadErr>>

(***************************************************************************)
(* Specifications.                                                         *)
(***************************************************************************)
vars == <<bootVars, mergeVars, resVars, loadVars>>

BootIdle ==
    /\ srcFile = [p \in Paths |-> Absent]
    /\ rootDir = "absent"
    /\ srcOpen = 0
    /\ cIdx = 0
    /\ fsEntry = [s \in ServiceSet |-> "absent"]
    /\ repoInit = [s \in ServiceSet |-> FALSE]
    /\ revs = [s \in ServiceSet |-> <<>>]
    /\ work = [s \in ServiceSet |-> <<>>]
    /\ txnOpen = [s \in ServiceSet |-> 0]
    /\ pc = "off"
    /\ runs = 0
    /\ idx = 0
    /\ service_managers = {}
    /\ err = ""
    /\ initCalls = [s \in ServiceSet |-> 0]
    /\ default_var_paths = EmptyOD
    /\ configurations = <<>>
    /\ fileIdx = 0
    /\ pathIdx = 0
    /\ merge_result = EmptyMap

MergeIdle ==
    /\ dict_a = EmptyMap
    /\ dict_b = EmptyMap
    /\ mergeOut = EmptyMap
    /\ mpc = "idle"

ResIdle ==
    /\ rFiles = <<>>
    /\ rKnown = TRUE
    /\ rpc = "idle"
    /\ rIdx = 0
    /\ components_modified = EmptyBag
    /\ rResult = {}
    /\ rList = <<>>
    /\ rErr = ""

LoadIdle ==
    /\ loadServices = <<>>
    /\ lpc = "idle"
    /\ lIdx = 0
    /\ loadManagers = <<>>
    /\ loadErr = ""

\* The state before the first bootstrap: any content of the sources, any
\* entry at the place of a service directory, no versioned store yet.
Init ==
    /\ srcFile \in {f \in [Paths -> {Absent, Malformed, Yaml(ExampleA), Yaml(ExampleB)}] :
                      \A p \in Paths : f[p] \in SourceStates(p)}
    /\ fsEntry \in [ServiceSet -> {"absent", "dir", "file"}]
    /\ rootDir \in {"absent", "dir"}
    /\ rootDir = "absent" => \A s \in ServiceSet : fsEntry[s] = "absent"
    /\ srcOpen = 0
    /\ cIdx = 0
    /\ repoInit = [s \in ServiceSet |-> FALSE]
    /\ revs = [s \in ServiceSet |-> <<>>]
    /\ work = [s \in ServiceSet |-> <<>>]
    /\ txnOpen = [s \in ServiceSet |-> 0]
    /\ pc = "idle"
    /\ runs = 0
    /\ idx = 0
    /\ service_managers = {}
    /\ err = ""
    /\ initCalls = [s \in ServiceSet |-> 0]
    /\ default_var_paths = EmptyOD
    /\ configurations = <<>>
    /\ fileIdx = 0
    /\ pathIdx = 0
    /\ merge_result = EmptyMap
    /\ MergeIdle
    /\ ResIdle
    /\ LoadIdle

Next ==
    \/ BootStart /\ UNCHANGED <<mergeVars, resVars, loadVars>>
    \/ BootMkdir /\ UNCHANGED <<mergeVars, resVars, loadVars>>
    \/ BootRepo /\ UNCHANGED <<mergeVars, resVars, loadVars>>
    \/ BootCheck /\ UNCHANGED <<mergeVars, resVars, loadVars>>
    \/ BootRecord /\ UNCHANGED <<mergeVars, resVars, loadVars>>
    \/ InitGather /\ UNCHANGED <<mergeVars, resVars, loadVars>>
    \/ InitBegin /\ UNCHANGED <<mergeVars, resVars, loadVars>>
    \/ InitFile /\ UNCHANGED <<mergeVars, resVars, loadVars>>
    \/ InitOpenSource /\ UNCHANGED <<mergeVars, resVars, loadVars>>
    \/ InitMerge /\ UNCHANGED <<mergeVars, resVars, loadVars>>
    \/ InitUpdate /\ UNCHANGED <<mergeVars, resVars, loadVars>>
    \/ InitCommit /\ UNCHANGED <<mergeVars, resVars, loadVars>>
    \/ InitAbort /\ UNCHANGED <<mergeVars, resVars, loadVars>>
    \/ Repair /\ UNCHANGED <<mergeVars, resVars, loadVars>>
    \/ CmdBegin /\ UNCHANGED <<mergeVars, resVars, loadVars>>
    \/ CmdEcho /\ UNCHANGED <<mergeVars, resVars, loadVars>>
    \/ CmdExit /\ UNCHANGED <<mergeVars, resVars, loadVars>>

Spec == Init /\ [][Next]_vars

InitMergeSpec ==
    /\ dict_a \in Maps2
    /\ dict_b \in Maps2
    /\ mergeOut = EmptyMap
    /\ mpc = "input"
    /\ BootIdle
    /\ ResIdle
    /\ LoadIdle

NextMerge == MergeCall /\ UNCHANGED <<bootVars, resVars, loadVars>>

SpecMerge == InitMergeSpec /\ [][NextMerge]_vars

RECURSIVE SeqsUpTo(_, _)
SeqsUpTo(S, n) ==
    IF n = 0 THEN {<<>>}
    ELSE SeqsUpTo(S, n - 1) \cup {Append(q, x) : q \in SeqsUpTo(S, n - 1), x \in S}

InitResolve ==
    /\ rFiles \in SeqsUpTo(FileNames, MaxFiles)
    /\ rKnown \in BOOLEAN
    /\ rpc = "call"
    /\ rIdx = 0
    /\ components_modified = EmptyBag
    /\ rResult = {}
    /\ rList = <<>>
    /\ rErr = ""
    /\ BootIdle
    /\ MergeIdle
    /\ LoadIdle

NextResolve ==
    \/ ResFilesModified /\ UNCHANGED <<bootVars, mergeVars, loadVars>>
    \/ ResFile /\ UNCHANGED <<bootVars, mergeVars, loadVars>>
    \/ ResReturn /\ UNCHANGED <<bootVars, mergeVars, loadVars>>

SpecResolve == InitResolve /\ [][NextResolve]_vars

\* What a service directory may be when get_service_managers is called:
\* missing, a non-directory, a plain directory, a versioned store without a
\* revision, or a store that holds its initial commit.
DirKinds == {"absent", "file", "dir", "store", "committed"}

InitialFiles(s) == (s \o YML_EXTENSION) :> EmptyMap

\* get_service_managers is called either on a graph whose two service names
\* have any length, or on the graph of Services with its directories in any
\* state.
InitLoad ==
    /\ lpc = "loop"
    /\ lIdx = 1
    /\ loadManagers = <<>>
    /\ loadErr = ""
    /\ MergeIdle
    /\ ResIdle
    /\ \/ /\ loadServices \in {<<PadName("a", n1), PadName("b", n2)>> :
                                  n1 \in 0..MaxNameLen, n2 \in 0..MaxNameLen}
          /\ BootIdle
       \/ /\ loadServices = Services
          /\ \E k \in [ServiceSet -> DirKinds] :
                /\ fsEntry = [s \in ServiceSet |->
                                IF k[s] \in {"absent", "file"} THEN k[s] ELSE "dir"]
                /\ repoInit = [s \in ServiceSet |-> k[s] \in {"store", "committed"}]
                /\ revs = [s \in ServiceSet |->
                             IF k[s] = "committed"
                             THEN <<Revision(CommitMessage(s), InitialFiles(s))>>
                             ELSE <<>>]
                /\ work = [s \in ServiceSet |->
                             IF k[s] = "committed" THEN InitialFiles(s) ELSE <<>>]
          /\ rootDir \in {"absent", "dir"}
          /\ rootDir = "absent" => \A s \in ServiceSet : fsEntry[s] = "absent"
          /\ srcOpen = 0
          /\ cIdx = 0
          /\ srcFile = [p \in Paths |-> Absent]
          /\ txnOpen = [s \in ServiceSet |-> 0]
          /\ pc = "off"
          /\ runs = 0
          /\ idx = 0
          /\ service_managers = {}
          /\ err = ""
          /\ initCalls = [s \in ServiceSet |-> 0]
          /\ default_var_paths = EmptyOD
          /\ configurations = <<>>
          /\ fileIdx = 0
          /\ pathIdx = 0
          /\ merge_result = EmptyMap

NextLoad ==
    \/ LoadConstruct /\ UNCHANGED <<mergeVars, resVars>>
    \/ LoadReturn /\ UNCHANGED <<bootVars, mergeVars, resVars>>

SpecLoad == InitLoad /\ [][NextLoad]_vars

(***************************************************************************)
(* Properties.                                                             *)
(***************************************************************************)
SourcesOf(s) == {p \in Paths : p.service = s}

\* The target files the sources name for a service: every file some
\* collection holds, or <service>.yml when no collection holds any.
ExpectedTargets(s) ==
    LET named == {p.name : p \in {q \in SourcesOf(s) : srcFile[q] # Absent}}
    IN  IF named = {} THEN {s \o YML_EXTENSION} ELSE named

\* The left fold, from the empty mapping, of the recursive merge over the
\* sources of file n of service s, in collection order.
RECURSIVE FoldSources(_, _, _)
FoldSources(s, n, k) ==
    IF k = 0 THEN EmptyMap
    ELSE LET p == VarPath(Collections[k], s, n)
             acc == FoldSources(s, n, k - 1)
         IN  IF srcFile[p].kind = "yaml" THEN merge_hash(acc, srcFile[p].dict) ELSE acc

\* C1: bootstrap is a no-op for an initialized service: when the version
\* check finds a revision, initialize_variables is not invoked and the
\* history is left alone; a revision, once created, is never replaced or
\* followed by another; and whenever a bootstrap returns, every service
\* holds exactly one revision, its initial commit.
C1_BootstrapNoOp ==
    /\ [][(pc = "check" /\ HasVersion(Cur))
            => (initCalls' = initCalls /\ revs' = revs /\ pc' # "gather")]_vars
    /\ [][\A s \in ServiceSet : revs[s] # <<>> => revs'[s] = revs[s]]_vars
    /\ [](pc = "done" =>
            \A s \in ServiceSet :
                Len(revs[s]) = 1 /\ revs[s][1].message = CommitMessage(s))

\* C1 witness: a second bootstrap has returned and every service still
\* holds the one revision of its single initialization.
C1_Witness ==
    /\ pc = "done"
    /\ runs = 2
    /\ \A s \in ServiceSet : Len(revs[s]) = 1 /\ initCalls[s] = 1

\* C2: initialization is all-or-nothing: a service one of whose sources is
\* malformed never reaches the commit, and once the failure has left
\* initialize_variables the error is surfaced, no revision exists, the
\* working tree holds no file, no transaction is open, the service still
\* has no version and no manager was recorded for it.
C2_AllOrNothing ==
    /\ (pc = "commit" => \A p \in SourcesOf(Cur) : srcFile[p] # Malformed)
    /\ (pc = "abort" => err = "MalformedSource" /\ revs[Cur] = <<>>)
    /\ (pc = "failed" /\ err = "MalformedSource") =>
          /\ revs[Cur] = <<>>
          /\ ~HasVersion(Cur)
          /\ work[Cur] = <<>>
          /\ txnOpen[Cur] = 0
          /\ Cur \notin service_managers

\* C2 witness: hdfs failed on a malformed source of its second target file
\* after its first target file was merged from a well-formed source.
C2_Witness ==
    /\ pc = "failed"
    /\ err = "MalformedSource"
    /\ Cur = "hdfs"
    /\ srcFile[VarPath("c1", "hdfs", "hdfs.yml")].kind = "yaml"
    /\ srcFile[VarPath("c2", "hdfs", "hdfs.yml")].kind = "yaml"
    /\ srcFile[VarPath("c1", "hdfs", "hdfs_datanode.yml")].kind = "yaml"
    /\ srcFile[VarPath("c2", "hdfs", "hdfs_datanode.yml")] = Malformed
    /\ revs["hdfs"] = <<>>
    /\ work["hdfs"] = <<>>

\* C3: the history of a store changes only when initialize_variables leaves
\* its transaction normally, and then by exactly one revision for the
\* service, labeled "<service>: initial commit", that holds every target
\* file of the service; every normal exit makes that one revision, and the
\* revisions of a service never outnumber the invocations.
C3_OneRevisionPerInit ==
    /\ [][revs' # revs =>
            /\ pc = "commit"
            /\ pc' = "record"
            /\ \A s \in ServiceSet \ {Cur} : revs'[s] = revs[s]
            /\ Len(revs'[Cur]) = Len(revs[Cur]) + 1
            /\ SubSeq(revs'[Cur], 1, Len(revs[Cur])) = revs[Cur]
            /\ revs'[Cur][Len(revs'[Cur])].message = CommitMessage(Cur)
            /\ DOMAIN revs'[Cur][Len(revs'[Cur])].files = ExpectedTargets(Cur)]_vars
    /\ [][(pc = "commit" /\ pc' # pc) => Len(revs'[Cur]) = Len(revs[Cur]) + 1]_vars
    /\ [](\A s \in ServiceSet : Len(revs[s]) <= initCalls[s])

\* C3 witness: hdfs was initialized from sources for both of its target
\* files and holds one revision with both of them.
C3_Witness ==
    /\ pc = "record"
    /\ Cur = "hdfs"
    /\ initCalls["hdfs"] = 1
    /\ Len(revs["hdfs"]) = 1
    /\ DOMAIN revs["hdfs"][1].files = {"hdfs.yml", "hdfs_datanode.yml"}
    /\ revs["hdfs"][1].message = "hdfs: initial commit"

\* C4: a service for which no collection yields an entry, once initialized,
\* holds exactly one revision whose only file is <service>.yml, with empty
\* content; and a bootstrap that returns has initialized it.
C4_EmptyService ==
    \A s \in ServiceSet :
        (\A p \in SourcesOf(s) : srcFile[p] = Absent) =>
            /\ revs[s] # <<>> =>
                  /\ Len(revs[s]) = 1
                  /\ revs[s][1].files = ((s \o YML_EXTENSION) :> EmptyMap)
                  /\ work[s] = ((s \o YML_EXTENSION) :> EmptyMap)
            /\ pc = "done" => revs[s] # <<>>

\* C4 witness: yarn has no default variables and was initialized with the
\* single empty file yarn.yml.
C4_Witness ==
    /\ pc = "done"
    /\ \A p \in SourcesOf("yarn") : srcFile[p] = Absent
    /\ Len(revs["yarn"]) = 1
    /\ revs["yarn"][1].files = ("yarn.yml" :> EmptyMap)

\* The components the claim C5 assigns to a changed file.
C5_Expected(f) ==
    LET stem == PathStem(f)
    IN  IF stem \in ServiceSet
        THEN {c \in DagComponents : c.service = stem /\ c.action = "config"}
        ELSE {Component(stem \o "_config")}

\* C5: the components returned are exactly the union over the changed files
\* of: the "config" components of the service when the stem is a known
\* service name, the single candidate <stem>_config otherwise.  With hdfs
\* owning hdfs_datanode_config and hdfs_namenode_config, hdfs.yml yields
\* both and hdfs_datanode.yml yields hdfs_datanode_config alone.
C5_Resolution ==
    /\ rpc = "returned" =>
          rResult = UNION {C5_Expected(rFiles[i]) : i \in 1..Len(rFiles)}
    /\ (rpc = "returned" /\ rFiles = <<"hdfs.yml">>) =>
          rResult = {Comp("hdfs", "datanode", "config"), Comp("hdfs", "namenode", "config")}
    /\ (rpc = "returned" /\ rFiles = <<"hdfs_datanode.yml">>) =>
          rResult = {Comp("hdfs", "datanode", "config")}

\* C5 witness: a service-level file and a unit file of another service were
\* resolved together.
C5_Witness ==
    /\ rpc = "returned"
    /\ rFiles = <<"hdfs.yml", "yarn_rm.yml">>
    /\ rResult = {Comp("hdfs", "datanode", "config"), Comp("hdfs", "namenode", "config"),
                  Comp("yarn", "rm", "config")}

\* C6: every component returned by components_modified belongs to the
\* dependency graph.
C6_ReturnedInGraph ==
    rpc = "returned" => rResult \subseteq DagComponents

\* C7: a changed file whose candidate component has an owning service
\* unknown to the graph makes the resolution fail with UnknownComponent: no
\* result is returned for a list of files that holds such a file.
C7_UnknownServiceFails ==
    rpc = "returned" =>
        \A i \in 1..Len(rFiles) :
            Component(PathStem(rFiles[i]) \o "_config").service \in ServiceSet

\* The recursive-merge law of the claim C8.
RECURSIVE C8_Law(_, _)
C8_Law(A, B) ==
    [k \in (DOMAIN A) \cup (DOMAIN B) |->
        IF k \in DOMAIN A /\ k \in DOMAIN B /\ IsMap(A[k]) /\ IsMap(B[k])
        THEN MapVal(C8_Law(A[k].m, B[k].m))
        ELSE IF k \in DOMAIN B THEN B[k] ELSE A[k]]

\* C8: merge_collection_vars(A, B) obeys the recursive-merge law: a key both
\* mappings map to mappings gets their recursive merge, any other key gets
\* B's value if B has it and A's otherwise; {a:1, b:{c:2}} then
\* {b:{c:3, d:4}} gives {a:1, b:{c:3, d:4}}, the reverse order gives
\* {a:1, b:{c:2, d:4}}.
C8_MergeLaw ==
    /\ mpc = "merged" => mergeOut = C8_Law(dict_a, dict_b)
    /\ merge_collection_vars(ExampleA, ExampleB)
         = [a |-> Leaf(1), b |-> MapVal([c |-> Leaf(3), d |-> Leaf(4)])]
    /\ merge_collection_vars(ExampleB, ExampleA)
         = [a |-> Leaf(1), b |-> MapVal([c |-> Leaf(2), d |-> Leaf(4)])]

\* C8 witness: two mappings that conflict on a nested leaf and each hold a
\* key the other lacks were merged, and the merge is not commutative.
C8_Witness ==
    /\ mpc = "merged"
    /\ dict_a = [a |-> Leaf(1), b |-> MapVal([a |-> Leaf(1)])]
    /\ dict_b = [b |-> MapVal([a |-> Leaf(2), b |-> Leaf(2)])]
    /\ mergeOut = [a |-> Leaf(1), b |-> MapVal([a |-> Leaf(2), b |-> Leaf(2)])]
    /\ merge_collection_vars(dict_b, dict_a) # mergeOut

\* C9: the content committed for a target file with a non-empty entry group
\* is the left fold, from the empty mapping, of the recursive merge over
\* the sources of that very file, in collection order.
C9_FoldInOrder ==
    \A s \in ServiceSet :
        revs[s] # <<>> =>
            \A n \in DOMAIN revs[s][1].files :
                (\E p \in SourcesOf(s) : p.name = n /\ srcFile[p] # Absent) =>
                    revs[s][1].files[n] = FoldSources(s, n, Len(Collections))

\* C9 witness: hdfs.yml was initialized from both collections, the second
\* overriding the first, while hdfs_datanode.yml came from the second alone.
C9_Witness ==
    /\ revs["hdfs"] # <<>>
    /\ srcFile[VarPath("c1", "hdfs", "hdfs_datanode.yml")] = Absent
    /\ DOMAIN revs["hdfs"][1].files = {"hdfs.yml", "hdfs_datanode.yml"}
    /\ revs["hdfs"][1].files["hdfs.yml"]
         = [a |-> Leaf(1), b |-> MapVal([c |-> Leaf(3), d |-> Leaf(4)])]
    /\ revs["hdfs"][1].files["hdfs_datanode.yml"] = ExampleB

\* C10: constructing a ServiceManager fails exactly for the names longer
\* than 15 characters: the managers constructed are the services before the
\* loop index, each at most 15 long, and the loop fails only on a longer
\* name, for which no manager is created.
C10_NameLength ==
    /\ loadManagers = SubSeq(loadServices, 1, Len(loadManagers))
    /\ \A i \in 1..Len(loadManagers) : Len(loadManagers[i]) <= 15
    /\ lpc = "loop" => Len(loadManagers) = lIdx - 1
    /\ lpc = "done" => loadManagers = loadServices
    /\ lpc = "failed" =>
          /\ Len(loadServices[lIdx]) > 15
          /\ Len(loadManagers) = lIdx - 1
          /\ loadErr = "InvalidServiceName"

\* C10 witness: a name of 15 characters got its manager and the next name,
\* of 16 characters, was refused.
C10_Witness ==
    /\ lpc = "failed"
    /\ Len(loadServices[1]) = 15
    /\ Len(loadServices[2]) = 16
    /\ loadManagers = <<loadServices[1]>>

\* C11: the list components_modified returns holds no element twice, also
\* when several changed files expand to the same components: it has as many
\* elements as there are distinct components among the files' expansions.
C11_NoRepeats ==
    rpc = "returned" =>
        /\ \A i, j \in 1..Len(rList) : rList[i] = rList[j] => i = j
        /\ Len(rList) =
              Cardinality(UNION {FileComponents(rFiles[i]).comps : i \in 1..Len(rFiles)})

\* C11 witness: the service-level file of hdfs and a unit file of hdfs were
\* both changed, and hdfs_datanode_config is returned once.
C11_Witness ==
    /\ rpc = "returned"
    /\ rFiles = <<"hdfs.yml", "hdfs_datanode.yml">>
    /\ Len(rList) = 2
    /\ rResult = {Comp("hdfs", "datanode", "config"), Comp("hdfs", "namenode", "config")}

\* C12: against a revision that is not part of the history of the store,
\* components_modified fails with UnknownRevision: it never enters its loop
\* and never returns a list, empty or partial.
C12_UnknownRevision ==
    ~rKnown /\ rpc # "idle" =>
        /\ rpc \in {"call", "failed"}
        /\ rpc = "failed" => rErr = "UnknownRevision"
        /\ rList = <<>>
        /\ rResult = {}
        /\ components_modified = EmptyBag

\* C12 witness: the call failed on an unknown revision although the store
\* has changed files that would resolve to components.
C12_Witness ==
    /\ ~rKnown
    /\ rpc = "failed"
    /\ rErr = "UnknownRevision"
    /\ rFiles = <<"hdfs.yml">>

\* C13: get_service_managers performs no writes: no step of it creates a
\* directory, initializes a versioned store, runs initialize_variables,
\* opens a transaction or changes a history or a working tree, whatever
\* the state of the service directories; and when it returns, the mapping
\* holds one manager for every service of the graph.
C13_LoadOnly ==
    /\ [][UNCHANGED <<fsEntry, repoInit, revs, work, txnOpen, initCalls, srcFile>>]_vars
    /\ [](lpc = "done" => loadManagers = loadServices)

\* C13 witness: the managers of hdfs and yarn were returned while the
\* directory of hdfs is missing and the store of yarn has no revision yet.
C13_Witness ==
    /\ lpc = "done"
    /\ loadServices = Services
    /\ loadManagers = Services
    /\ fsEntry["hdfs"] = "absent"
    /\ repoInit["yarn"]
    /\ revs["yarn"] = <<>>

\* C14: at the service directory step of the bootstrap an absent directory
\* is created together with its parents, an existing directory is taken as
\* it is, and any other entry fails the bootstrap with NotADirectory while
\* the service has no versioned store, no revision and no manager; a store
\* or a revision only ever exists in a directory.
C14_Mkdir ==
    /\ [][pc = "mkdir" =>
            \/ /\ fsEntry[Cur] = "absent"
               /\ fsEntry' = [fsEntry EXCEPT ![Cur] = "dir"]
               /\ rootDir' = "dir"
               /\ pc' = "repo" /\ err' = err
            \/ /\ fsEntry[Cur] = "dir"
               /\ fsEntry' = fsEntry
               /\ pc' = "repo" /\ err' = err
            \/ /\ fsEntry[Cur] = "file"
               /\ fsEntry' = fsEntry
               /\ pc' = "failed" /\ err' = "NotADirectory"
               /\ ~repoInit'[Cur] /\ revs'[Cur] = <<>>
               /\ Cur \notin service_managers']_vars
    /\ [](\A s \in ServiceSet :
            (repoInit[s] \/ revs[s] # <<>>) => (fsEntry[s] = "dir" /\ rootDir = "dir"))
    /\ []((pc = "failed" /\ err = "NotADirectory") =>
            (~repoInit[Cur] /\ revs[Cur] = <<>> /\ Cur \notin service_managers))

\* The three cases have happened in one bootstrap history: hdfs was created
\* from nothing, and yarn, found as a plain file, failed the second pass
\* that reused the hdfs directory.
C14_Witness ==
    /\ pc = "failed" /\ err = "NotADirectory"
    /\ Cur = "yarn" /\ fsEntry["yarn"] = "file"
    /\ fsEntry["hdfs"] = "dir" /\ Len(revs["hdfs"]) = 1
    /\ runs = 2 /\ initCalls["hdfs"] = 1
    /\ ~repoInit["yarn"]

C16_AllVersioned ==
    /\ []((pc \in {"done", "echo", "exit"}) =>
            /\ service_managers = ServiceSet
            /\ \A s \in ServiceSet : HasVersion(s) /\ fsEntry[s] = "dir" /\ repoInit[s])
    /\ [](pc # "crashed")
    /\ [][(pc = "echo" /\ cIdx <= Len(Services)) =>
            (HasVersion(Services[cIdx]) /\ cIdx' = cIdx + 1 /\ err' = err)]_vars

\* The init command has echoed the version of both managers after a
\* bootstrap that initialized them.
C16_Witness ==
    /\ pc = "exit" /\ cIdx = Len(Services) + 1
    /\ service_managers = ServiceSet
    /\ \A s \in ServiceSet : initCalls[s] = 1 /\ Len(revs[s]) = 1

\* C17: when a bootstrap has failed, every service before the failing one
\* holds exactly its initial revision and the failing and the later ones
\* hold no revision and no file; a service that holds a revision is never
\* initialized again and keeps its history through every later bootstrap;
\* and a bootstrap that returns after an earlier failure leaves exactly one
\* revision in every service.
C17_RerunAfterFailure ==
    /\ [](pc = "failed" =>
            \A i \in 1..Len(Services) :
                IF i < idx
                THEN /\ Len(revs[Services[i]]) = 1
                     /\ revs[Services[i]][1].message = CommitMessage(Services[i])
                ELSE /\ revs[Services[i]] = <<>>
                     /\ work[Services[i]] = <<>>)
    /\ [][\A s \in ServiceSet :
            HasVersion(s) => (initCalls'[s] = initCalls[s] /\ revs'[s] = revs[s])]_vars
    /\ []((pc = "done" /\ runs > 1) =>
            \A s \in ServiceSet : Len(revs[s]) = 1 /\ initCalls[s] \in 1..runs)

\* The first bootstrap initialized hdfs and failed in yarn; the second one,
\* after the repair, returned with one revision each, hdfs having been
\* initialized once and yarn twice.
C17_Witness ==
    /\ pc = "done" /\ runs = 2
    /\ initCalls["hdfs"] = 1 /\ initCalls["yarn"] = 2
    /\ \A s \in ServiceSet : Len(revs[s]) = 1


\* C18: a versioned directory never has more than one open transaction and
\* only the service being initialized has one; at most one default source
\* is open, and only while it is read; and once initialize_variables has
\* returned or failed, no transaction, no configuration file and no source
\* is open.
C18_ScopedResources ==
    /\ \A s \in ServiceSet : txnOpen[s] \in {0, 1}
    /\ srcOpen \in {0, 1}
    /\ srcOpen = 1 <=> pc = "read"
    /\ \A s \in ServiceSet :
          txnOpen[s] = 1 <=>
              (pc \in {"file", "merge", "read", "commit", "abort"} /\ s = Cur)
    /\ (pc \notin {"file", "merge", "read", "commit", "abort"}) =>
          /\ \A s \in ServiceSet : txnOpen[s] = 0
          /\ configurations = <<>>
          /\ srcOpen = 0

\* initialize_variables of yarn has failed on a malformed source, after the
\* one of hdfs had returned, and nothing is left open.
C18_Witness ==
    /\ pc = "failed" /\ err = "MalformedSource" /\ Cur = "yarn"
    /\ initCalls["yarn"] = 1 /\ initCalls["hdfs"] = 1
    /\ Len(revs["hdfs"]) = 1
    /\ \A s \in ServiceSet : txnOpen[s] = 0
    /\ srcOpen = 0
    /\ configurations = <<>>

====
